---- MODULE Spec2Model ----
(***************************************************************************)
(* A model of airflow/models/variable.py: the lazily resolved process-wide *)
(* Fernet cipher (get_fernet, NullFernet), the Variable record accessors   *)
(* (get_val, set_val) and the Variable store API (get, set, setdefault)    *)
(* over a relational table with a unique key column.                       *)
(*                                                                         *)
(* Three specifications share the state:                                   *)
(*   Spec        one process calling the API sequentially;                 *)
(*   SpecFernet  threads of one process inside get_fernet(), interleaved    *)
(*               between its statements;                                   *)
(*   SpecDB      sessions running Variable.set concurrently against the    *)
(*               table, with a reader in a session of its own.             *)
(* serialize_json / deserialize_json are taken at their default, False.    *)
(***************************************************************************)
EXTENDS Integers, Sequences, FiniteSets, TLC

VARIABLES
    _fernet,             \* module global _fernet (line 59)
    InvalidFernetToken,  \* module global class binding (lines 35, 79-80)
    conf,                \* configuration.conf.get('core', 'FERNET_KEY'), as its comma-separated parts
    cryptography,        \* whether "from cryptography.fernet import ..." succeeds
    warnings,            \* number of log.warning calls made by get_fernet in this process
    nextObj,             \* number of cipher objects constructed in this process
    table,               \* committed rows of table "variable"
    nextId,              \* last value handed out for the autoincrement column id
    last,                \* outcome of the most recent API call of the sequential process
    lastSet,             \* per key, the value of the most recent Variable.set that returned
    tpc, tret, tkey, tcalls,             \* SpecFernet: per thread position, returned object, local fernet_key, calls made
    wpc, wmode, wkey, wval, snap, del, ins, rd   \* SpecDB: sessions and the reader's observation

vars == <<_fernet, InvalidFernetToken, conf, cryptography, warnings, nextObj,
          table, nextId, last, lastSet, tpc, tret, tkey, tcalls,
          wpc, wmode, wkey, wval, snap, del, ins, rd>>

procVars == <<_fernet, InvalidFernetToken, conf, cryptography, warnings, nextObj>>
seqVars == <<last, lastSet>>
threadVars == <<tpc, tret, tkey, tcalls>>
dbVars == <<wpc, wmode, wkey, wval, snap, del, ins, rd>>

----------------------------------------------------------------------------
(* Bounds *)

NThreads == 2
NWriters == 2
MaxCalls == 2
MaxId == 3

----------------------------------------------------------------------------
(* Python values.  t is the Python type, enc the Fernet key a token was     *)
(* encrypted under ("-" for text that is no token), s the text.             *)

Val(t, e, s) == [t |-> t, enc |-> e, s |-> s]
None == Val("NoneType", "-", "")
StrV(s) == Val("str", "-", s)
IntV(s) == Val("int", "-", s)

\* truth value of a Python object in "if value:" / "self._val and ..."
Truthy(v) ==
    CASE v.t = "NoneType" -> FALSE
      [] v.t = "int" -> v.s # "0"
      [] OTHER -> v.enc # "-" \/ v.s # ""

\* str(value), line 197
PyStr(v) ==
    CASE v.t = "str" -> v
      [] v.t = "int" -> StrV(v.s)
      [] v.t = "NoneType" -> StrV("None")
      [] OTHER -> [v EXCEPT !.t = "str"]

\* bytes(x, 'utf-8') / x.encode('utf-8') and b.decode()
Bytes(v) == [v EXCEPT !.t = "bytes"]
Decode(b) == [b EXCEPT !.t = "str"]

----------------------------------------------------------------------------
(* Cipher objects *)

FernetKeys == {"K1", "K2"}          \* structurally valid key parts
Configs == {<<>>, <<"K1">>, <<"K2", "K1">>, <<"bad">>, <<"K1", "bad">>}

NoFernet == [cls |-> "None", keys |-> <<>>, id |-> 0, attr |-> FALSE, is_encrypted |-> FALSE]

\* NullFernet(): the class attribute is_encrypted = False (line 50)
NullFernet(i) ==
    [cls |-> "NullFernet", keys |-> <<>>, id |-> i, attr |-> TRUE, is_encrypted |-> FALSE]

\* MultiFernet([...]) as constructed on lines 97-100: no is_encrypted attribute yet
MultiFernet(ks, i) ==
    [cls |-> "MultiFernet", keys |-> ks, id |-> i, attr |-> FALSE, is_encrypted |-> FALSE]

\* _fernet.is_encrypted = True, line 101
FlagEncrypted(f) == [f EXCEPT !.attr = TRUE, !.is_encrypted = TRUE]

\* Fernet(part) raises ValueError for a part that is no 32-byte url-safe base64 key
KeyOK(ks) == \A i \in 1..Len(ks) : ks[i] \in FernetKeys

\* the methods class NullFernet defines (lines 52-56)
NullFernetMethods == {"decrpyt", "encrypt"}

Ok(v) == [exc |-> "none", val |-> v]
Raise(e) == [exc |-> e, val |-> None]

\* fernet.encrypt(b)
Encrypt(f, b) ==
    CASE f.cls = "NullFernet" ->
            IF "encrypt" \in NullFernetMethods THEN Ok(b) ELSE Raise("AttributeError")
      [] f.cls = "MultiFernet" -> Ok(Val("bytes", f.keys[1], b.s))
      [] OTHER -> Raise("AttributeError")

\* fernet.decrypt(b)
Decrypt(f, b) ==
    CASE f.cls = "NullFernet" ->
            IF "decrypt" \in NullFernetMethods THEN Ok(b) ELSE Raise("AttributeError")
      [] f.cls = "MultiFernet" ->
            IF \E i \in 1..Len(f.keys) : f.keys[i] = b.enc
            THEN Ok(Val("bytes", "-", b.s))
            ELSE Raise("InvalidToken")
      [] OTHER -> Raise("AttributeError")

\* a rotate that hands the token back as it came
RotateToken_Keep(f, b) ==
    CASE f.cls = "NullFernet" ->
            IF "rotate" \in NullFernetMethods THEN Ok(b) ELSE Raise("AttributeError")
      [] f.cls = "MultiFernet" ->
            IF \E i \in 1..Len(f.keys) : f.keys[i] = b.enc
            THEN Ok(b)
            ELSE Raise("InvalidToken")
      [] OTHER -> Raise("AttributeError")

\* fernet.rotate(b), line 206: decrypt with whichever key fits, encrypt under the first
RotateToken(f, b) ==
    CASE f.cls = "NullFernet" ->
            IF "rotate" \in NullFernetMethods THEN Ok(b) ELSE Raise("AttributeError")
      [] f.cls = "MultiFernet" ->
            IF \E i \in 1..Len(f.keys) : f.keys[i] = b.enc
            THEN Ok(Val("bytes", f.keys[1], b.s))
            ELSE Raise("InvalidToken")
      [] OTHER -> Raise("AttributeError")

\* default_sentinel = object(), line 163
Sentinel == Val("object", "-", "sentinel")

\* no row (.first() returned None) and no call yet
NoRow == [id |-> 0, key |-> "-", val |-> None, is_encrypted |-> FALSE]
NoLast ==
    [op |-> "none", key |-> "-", arg |-> None, ret |-> None, exc |-> "none",
     log |-> "none", fernet |-> NoFernet]

----------------------------------------------------------------------------
(* get_fernet(), lines 62-105, run without interruption *)

\* get_fernet() that falls back to NullFernet on a key it cannot load
GetFernetRun_Degrade(f, ift, cfg, crypto, nobj) ==
    IF f.cls # "None"
    THEN [fernet |-> f, ift |-> ift, warn |-> 0, nobj |-> nobj, exc |-> "none", ret |-> f]
    ELSE IF ~crypto
    THEN [fernet |-> NullFernet(nobj + 1), ift |-> ift, warn |-> 1, nobj |-> nobj + 1,
          exc |-> "none", ret |-> NullFernet(nobj + 1)]
    ELSE IF cfg = <<>> \/ ~KeyOK(cfg)
    THEN [fernet |-> NullFernet(nobj + 1), ift |-> "InvalidToken", warn |-> 1,
          nobj |-> nobj + 1, exc |-> "none", ret |-> NullFernet(nobj + 1)]
    ELSE [fernet |-> FlagEncrypted(MultiFernet(cfg, nobj + 1)), ift |-> "InvalidToken",
          warn |-> 0, nobj |-> nobj + 1, exc |-> "none",
          ret |-> FlagEncrypted(MultiFernet(cfg, nobj + 1))]

\* get_fernet() without lines 75-76, resolving on every call
GetFernetRun_NoCache(f, ift, cfg, crypto, nobj) ==
    IF ~crypto
    THEN [fernet |-> NullFernet(nobj + 1), ift |-> ift, warn |-> 1, nobj |-> nobj + 1,
          exc |-> "none", ret |-> NullFernet(nobj + 1)]
    ELSE IF cfg = <<>>
    THEN [fernet |-> NullFernet(nobj + 1), ift |-> "InvalidToken", warn |-> 1,
          nobj |-> nobj + 1, exc |-> "none", ret |-> NullFernet(nobj + 1)]
    ELSE IF ~KeyOK(cfg)
    THEN [fernet |-> f, ift |-> "InvalidToken", warn |-> 0, nobj |-> nobj,
          exc |-> "AirflowException", ret |-> NoFernet]
    ELSE [fernet |-> FlagEncrypted(MultiFernet(cfg, nobj + 1)), ift |-> "InvalidToken",
          warn |-> 0, nobj |-> nobj + 1, exc |-> "none",
          ret |-> FlagEncrypted(MultiFernet(cfg, nobj + 1))]

GetFernetRun(f, ift, cfg, crypto, nobj) ==
    IF f.cls # "None"
    THEN [fernet |-> f, ift |-> ift, warn |-> 0, nobj |-> nobj, exc |-> "none", ret |-> f]
    ELSE IF ~crypto
    THEN [fernet |-> NullFernet(nobj + 1), ift |-> ift, warn |-> 1, nobj |-> nobj + 1,
          exc |-> "none", ret |-> NullFernet(nobj + 1)]
    ELSE IF cfg = <<>>
    THEN [fernet |-> NullFernet(nobj + 1), ift |-> "InvalidToken", warn |-> 1,
          nobj |-> nobj + 1, exc |-> "none", ret |-> NullFernet(nobj + 1)]
    ELSE IF ~KeyOK(cfg)
    THEN [fernet |-> f, ift |-> "InvalidToken", warn |-> 0, nobj |-> nobj,
          exc |-> "AirflowException", ret |-> NoFernet]
    ELSE [fernet |-> FlagEncrypted(MultiFernet(cfg, nobj + 1)), ift |-> "InvalidToken",
          warn |-> 0, nobj |-> nobj + 1, exc |-> "none",
          ret |-> FlagEncrypted(MultiFernet(cfg, nobj + 1))]

----------------------------------------------------------------------------
(* The table "variable" (lines 109-114) and the Variable accessors *)

Keys == {"k1", "k2"}

\* a Variable() before any attribute is assigned; is_encrypted gets the column
\* default False at INSERT (line 114)
NewVariable(k) == [id |-> 0, key |-> k, val |-> None, is_encrypted |-> FALSE]

\* a handler "except ValueError:" in the place of "except Exception:"
CatchesValueError(e) == e \in {"ValueError"}

\* "except Exception:", line 130: every exception the model raises derives from Exception
CatchesException(e) == e \in {"AirflowException", "AttributeError", "InvalidToken"}

\* get_val() with "fernet = get_fernet()" ahead of the try block
GetValRun_FernetOutsideTry(obj, gf) ==
    IF Truthy(obj.val) /\ obj.is_encrypted
    THEN IF gf.exc # "none"
         THEN [ret |-> None, exc |-> gf.exc, log |-> "none", called |-> TRUE]
         ELSE LET d == Decrypt(gf.ret, Bytes(obj.val))
              IN  IF d.exc = "none"
                  THEN [ret |-> Decode(d.val), exc |-> "none", log |-> "none",
                        called |-> TRUE]
                  ELSE IF d.exc = "InvalidToken" /\ gf.ift = "InvalidToken"
                  THEN [ret |-> None, exc |-> "none", log |-> "invalid token",
                        called |-> TRUE]
                  ELSE [ret |-> None, exc |-> "none", log |-> "configuration missing",
                        called |-> TRUE]
    ELSE [ret |-> obj.val, exc |-> "none", log |-> "none", called |-> FALSE]

\* get_val(), lines 120-135.  gf is the outcome get_fernet() has when called now.
GetValRun(obj, gf) ==
    IF Truthy(obj.val) /\ obj.is_encrypted
    THEN LET d == IF gf.exc # "none" THEN Raise(gf.exc)
                  ELSE Decrypt(gf.ret, Bytes(obj.val))
         IN  IF d.exc = "none"
             THEN [ret |-> Decode(d.val), exc |-> "none", log |-> "none", called |-> TRUE]
             ELSE IF d.exc = "InvalidToken" /\ gf.ift = "InvalidToken"
             THEN [ret |-> None, exc |-> "none", log |-> "invalid token", called |-> TRUE]
             ELSE IF CatchesException(d.exc)
             THEN [ret |-> None, exc |-> "none", log |-> "configuration missing",
                   called |-> TRUE]
             ELSE [ret |-> None, exc |-> d.exc, log |-> "none", called |-> TRUE]
    ELSE [ret |-> obj.val, exc |-> "none", log |-> "none", called |-> FALSE]

\* set_val() without line 141, the assignment of is_encrypted
SetValRun_NoFlag(obj, value, gf) ==
    IF ~Truthy(value)
    THEN [obj |-> obj, exc |-> "none", called |-> FALSE]
    ELSE IF gf.exc # "none"
    THEN [obj |-> obj, exc |-> gf.exc, called |-> TRUE]
    ELSE LET e == Encrypt(gf.ret, Bytes(value))
         IN  IF e.exc # "none"
             THEN [obj |-> obj, exc |-> e.exc, called |-> TRUE]
             ELSE [obj |-> [obj EXCEPT !.val = Decode(e.val)], exc |-> "none",
                   called |-> TRUE]

\* set_val() without the test of line 138, writing whatever it is given
SetValRun_NoGuard(obj, value, gf) ==
    IF gf.exc # "none"
    THEN [obj |-> obj, exc |-> gf.exc, called |-> TRUE]
    ELSE LET e == Encrypt(gf.ret, Bytes(value))
         IN  IF e.exc # "none"
             THEN [obj |-> obj, exc |-> e.exc, called |-> TRUE]
             ELSE [obj |-> [obj EXCEPT !.val = Decode(e.val),
                                       !.is_encrypted = gf.ret.is_encrypted],
                   exc |-> "none", called |-> TRUE]

\* set_val(value), lines 137-141
SetValRun(obj, value, gf) ==
    IF ~Truthy(value)
    THEN [obj |-> obj, exc |-> "none", called |-> FALSE]
    ELSE IF gf.exc # "none"
    THEN [obj |-> obj, exc |-> gf.exc, called |-> TRUE]
    ELSE LET e == Encrypt(gf.ret, Bytes(value))
         IN  IF e.exc # "none"
             THEN [obj |-> obj, exc |-> e.exc, called |-> TRUE]
             ELSE IF ~gf.ret.attr
             THEN [obj |-> [obj EXCEPT !.val = Decode(e.val)], exc |-> "AttributeError",
                   called |-> TRUE]
             ELSE [obj |-> [obj EXCEPT !.val = Decode(e.val),
                                       !.is_encrypted = gf.ret.is_encrypted],
                   exc |-> "none", called |-> TRUE]

\* session.query(cls).filter(cls.key == key), lines 178 and 199
Matching(tbl, k) == {r \in tbl : r.key = k}

\* a delete that lost its filter: session.query(cls).delete()
DeleteRows_NoFilter(tbl, k) == {}

\* ....delete(), line 199: the rows left
DeleteRows(tbl, k) == tbl \ Matching(tbl, k)

\* Variable.get testing "if default_var:" in the place of "is not None"
GetRun_TruthyDefault(obj, default_var, gf) ==
    IF obj = NoRow
    THEN IF Truthy(default_var)
         THEN [ret |-> default_var, exc |-> "none", log |-> "none", called |-> FALSE]
         ELSE [ret |-> None, exc |-> "KeyError", log |-> "none", called |-> FALSE]
    ELSE GetValRun(obj, gf)

\* Variable.get, lines 177-188, on the row .first() returned (NoRow for None)
GetRun(obj, default_var, gf) ==
    IF obj = NoRow
    THEN IF default_var # None
         THEN [ret |-> default_var, exc |-> "none", log |-> "none", called |-> FALSE]
         ELSE [ret |-> None, exc |-> "KeyError", log |-> "none", called |-> FALSE]
    ELSE GetValRun(obj, gf)

\* the rows .first() may return
First(tbl, k) == IF Matching(tbl, k) = {} THEN {NoRow} ELSE Matching(tbl, k)

\* Variable.set, lines 192-201, in a session of its own that is committed on a
\* normal return and rolled back on an exception
SetRun(tbl, nid, k, value, gf) ==
    LET stored == PyStr(value)
        left == DeleteRows(tbl, k)
        sv == SetValRun(NewVariable(k), stored, gf)
    IN  IF sv.exc # "none"
        THEN [table |-> tbl, nextId |-> nid, exc |-> sv.exc, called |-> sv.called]
        ELSE IF Matching(left, k) # {}
        THEN [table |-> tbl, nextId |-> nid, exc |-> "IntegrityError", called |-> sv.called]
        ELSE [table |-> left \cup {[sv.obj EXCEPT !.id = nid + 1]}, nextId |-> nid + 1,
              exc |-> "none", called |-> sv.called]

\* setdefault that rejects a None default before it looks the key up
SetDefaultRun_CheckFirst(obj, tbl, nid, k, d, gf) ==
    LET g == GetRun(obj, Sentinel, gf)
    IN  IF d = None
        THEN [table |-> tbl, nextId |-> nid, ret |-> None, exc |-> "ValueError",
              log |-> "none", called |-> FALSE]
        ELSE IF g.ret = Sentinel
        THEN LET s == SetRun(tbl, nid, k, d, gf)
             IN  [table |-> s.table, nextId |-> s.nextId,
                  ret |-> IF s.exc = "none" THEN d ELSE None,
                  exc |-> s.exc, log |-> "none", called |-> s.called]
        ELSE [table |-> tbl, nextId |-> nid, ret |-> g.ret, exc |-> g.exc, log |-> g.log,
              called |-> g.called]

\* setdefault that takes a None from get for a missing key
SetDefaultRun_NoneIsAbsent(obj, tbl, nid, k, d, gf) ==
    LET g == GetRun(obj, Sentinel, gf)
    IN  IF g.ret = Sentinel \/ g.ret = None
        THEN IF d # None
             THEN LET s == SetRun(tbl, nid, k, d, gf)
                  IN  [table |-> s.table, nextId |-> s.nextId,
                       ret |-> IF s.exc = "none" THEN d ELSE None,
                       exc |-> s.exc, log |-> "none", called |-> s.called]
             ELSE [table |-> tbl, nextId |-> nid, ret |-> None, exc |-> "ValueError",
                   log |-> "none", called |-> g.called]
        ELSE [table |-> tbl, nextId |-> nid, ret |-> g.ret, exc |-> g.exc, log |-> g.log,
              called |-> g.called]

\* setdefault that writes the default whether or not the key is there
SetDefaultRun_Overwrite(obj, tbl, nid, k, d, gf) ==
    IF d # None
    THEN LET s == SetRun(tbl, nid, k, d, gf)
         IN  [table |-> s.table, nextId |-> s.nextId,
              ret |-> IF s.exc = "none" THEN d ELSE None,
              exc |-> s.exc, log |-> "none", called |-> s.called]
    ELSE [table |-> tbl, nextId |-> nid, ret |-> None, exc |-> "ValueError",
          log |-> "none", called |-> FALSE]

\* Variable.setdefault, lines 149-173, on the row .first() returns inside Variable.get
SetDefaultRun(obj, tbl, nid, k, d, gf) ==
    LET g == GetRun(obj, Sentinel, gf)
    IN  IF g.exc # "none"
        THEN [table |-> tbl, nextId |-> nid, ret |-> None, exc |-> g.exc, log |-> g.log,
              called |-> g.called]
        ELSE IF g.ret = Sentinel
        THEN IF d # None
             THEN LET s == SetRun(tbl, nid, k, d, gf)
                  IN  [table |-> s.table, nextId |-> s.nextId,
                       ret |-> IF s.exc = "none" THEN d ELSE None,
                       exc |-> s.exc, log |-> "none", called |-> s.called]
             ELSE [table |-> tbl, nextId |-> nid, ret |-> None, exc |-> "ValueError",
                   log |-> "none", called |-> g.called]
        ELSE [table |-> tbl, nextId |-> nid, ret |-> g.ret, exc |-> "none", log |-> g.log,
              called |-> g.called]

\* rotate_fernet_key(), lines 203-206, on a loaded row
RotateRun(obj, gf) ==
    IF gf.exc # "none"
    THEN [obj |-> obj, exc |-> gf.exc]
    ELSE IF Truthy(obj.val) /\ obj.is_encrypted
    THEN LET r == RotateToken(gf.ret, Bytes(obj.val))
         IN  IF r.exc # "none"
             THEN [obj |-> obj, exc |-> r.exc]
             ELSE [obj |-> [obj EXCEPT !.val = Decode(r.val)], exc |-> "none"]
    ELSE [obj |-> obj, exc |-> "none"]

----------------------------------------------------------------------------
(* Spec: one process calling the API sequentially *)

Values == {None, StrV(""), StrV("a"), StrV("b"), IntV("0")}
Defaults == {None, StrV("b")}

GF == GetFernetRun(_fernet, InvalidFernetToken, conf, cryptography, nextObj)

\* the effect on the module globals of a call that did or did not reach get_fernet()
ApplyGF(called, gf) ==
    /\ IF called
       THEN /\ _fernet' = gf.fernet
            /\ InvalidFernetToken' = gf.ift
            /\ warnings' = warnings + gf.warn
            /\ nextObj' = gf.nobj
       ELSE UNCHANGED <<_fernet, InvalidFernetToken, warnings, nextObj>>
    /\ UNCHANGED <<conf, cryptography>>

Unset == [has |-> FALSE, v |-> None]
WasSet(v) == [has |-> TRUE, v |-> v]

\* a caller calls get_fernet()
GetFernetCall ==
    /\ ApplyGF(TRUE, GF)
    /\ last' = [op |-> "get_fernet", key |-> "-", arg |-> None, ret |-> None,
                exc |-> GF.exc, log |-> "none", fernet |-> GF.ret]
    /\ UNCHANGED <<table, nextId, lastSet, threadVars, dbVars>>

\* a caller uses the resolved cipher: f = get_fernet(); f.decrypt(f.encrypt(b))
CipherRoundTrip(v) ==
    /\ Truthy(v) /\ v.t = "str"
    /\ ApplyGF(TRUE, GF)
    /\ LET e == IF GF.exc # "none" THEN Raise(GF.exc) ELSE Encrypt(GF.ret, Bytes(v))
           d == IF e.exc # "none" THEN e ELSE Decrypt(GF.ret, e.val)
       IN  last' = [op |-> "roundtrip", key |-> "-", arg |-> v,
                    ret |-> IF d.exc = "none" THEN Decode(d.val) ELSE None,
                    exc |-> d.exc, log |-> "none", fernet |-> GF.ret]
    /\ UNCHANGED <<table, nextId, lastSet, threadVars, dbVars>>

\* Variable.get(k, default_var=d)
Get(k, d) ==
    \E obj \in First(table, k) :
        LET g == GetRun(obj, d, GF)
        IN  /\ ApplyGF(g.called, GF)
            /\ last' = [op |-> "get", key |-> k, arg |-> d, ret |-> g.ret, exc |-> g.exc,
                        log |-> g.log, fernet |-> NoFernet]
            /\ UNCHANGED <<table, nextId, lastSet, threadVars, dbVars>>

\* Variable.set(k, v)
Set(k, v) ==
    /\ nextId < MaxId
    /\ LET s == SetRun(table, nextId, k, v, GF)
       IN  /\ ApplyGF(s.called, GF)
           /\ table' = s.table
           /\ nextId' = s.nextId
           /\ last' = [op |-> "set", key |-> k, arg |-> v, ret |-> None, exc |-> s.exc,
                       log |-> "none", fernet |-> NoFernet]
           /\ lastSet' = IF s.exc = "none" THEN [lastSet EXCEPT ![k] = WasSet(v)]
                         ELSE lastSet
    /\ UNCHANGED <<threadVars, dbVars>>

\* Variable.setdefault(k, d)
SetDefault(k, d) ==
    /\ nextId < MaxId
    /\ \E obj \in First(table, k) :
          LET r == SetDefaultRun(obj, table, nextId, k, d, GF)
          IN  /\ ApplyGF(r.called, GF)
              /\ table' = r.table
              /\ nextId' = r.nextId
              /\ last' = [op |-> "setdefault", key |-> k, arg |-> d, ret |-> r.ret,
                          exc |-> r.exc, log |-> r.log, fernet |-> NoFernet]
              /\ lastSet' = IF r.table # table THEN [lastSet EXCEPT ![k] = WasSet(d)]
                            ELSE lastSet
    /\ UNCHANGED <<threadVars, dbVars>>

\* a caller loads the row of k, calls rotate_fernet_key() on it and commits
Rotate(k) ==
    \E obj \in Matching(table, k) :
        LET r == RotateRun(obj, GF)
        IN  /\ ApplyGF(TRUE, GF)
            /\ table' = (table \ {obj}) \cup {r.obj}
            /\ last' = [op |-> "rotate", key |-> k, arg |-> None, ret |-> None,
                        exc |-> r.exc, log |-> "none", fernet |-> NoFernet]
            /\ UNCHANGED <<nextId, lastSet, threadVars, dbVars>>

\* a caller loads the row of k, assigns obj.val = v (set_val through the
\* synonym of lines 143-146) and commits
AssignVal(k, v) ==
    \E obj \in Matching(table, k) :
        LET sv == SetValRun(obj, v, GF)
        IN  /\ ApplyGF(sv.called, GF)
            /\ table' = IF sv.exc = "none" THEN (table \ {obj}) \cup {sv.obj} ELSE table
            /\ last' = [op |-> "assign", key |-> k, arg |-> v, ret |-> None,
                        exc |-> sv.exc, log |-> "none", fernet |-> NoFernet]
            /\ lastSet' = IF sv.exc = "none" /\ sv.called
                          THEN [lastSet EXCEPT ![k] = WasSet(v)] ELSE lastSet
            /\ UNCHANGED <<nextId, threadVars, dbVars>>

\* the process ends and another starts on the same table: the module is loaded
\* afresh (lines 35 and 59), under whatever configuration the new process finds
Restart ==
    /\ _fernet' = NoFernet
    /\ InvalidFernetToken' = "placeholder"
    /\ conf' \in Configs
    /\ cryptography' \in BOOLEAN
    /\ warnings' = 0
    /\ nextObj' = 0
    /\ last' = [NoLast EXCEPT !.op = "restart"]
    /\ lastSet' = [k \in Keys |-> Unset]
    /\ UNCHANGED <<table, nextId, threadVars, dbVars>>

\* the operator edits FERNET_KEY while the process runs
ConfChange(c) ==
    /\ c # conf
    /\ conf' = c
    /\ last' = [NoLast EXCEPT !.op = "conf_change"]
    /\ UNCHANGED <<_fernet, InvalidFernetToken, cryptography, warnings, nextObj, table,
                   nextId, lastSet, threadVars, dbVars>>

\* rows an earlier process may have left under k1: plain text, a token under K1,
\* a token under K2, text that is no token although the row is flagged encrypted
InitRows ==
    { [id |-> 1, key |-> "k1", val |-> StrV("a"), is_encrypted |-> FALSE],
      [id |-> 1, key |-> "k1", val |-> Val("str", "K1", "a"), is_encrypted |-> TRUE],
      [id |-> 1, key |-> "k1", val |-> Val("str", "K2", "b"), is_encrypted |-> TRUE],
      [id |-> 1, key |-> "k1", val |-> StrV("b"), is_encrypted |-> TRUE] }

----------------------------------------------------------------------------
(* SpecDB: Variable.set statement by statement in concurrent sessions.       *)
(* The database isolates transactions at READ COMMITTED: a session sees the  *)
(* committed rows and its own changes, a DELETE waits for a row another open *)
(* transaction deleted, an INSERT waits for an uncommitted row or delete of  *)
(* the same key and fails on a committed one (unique=True, line 112).        *)
(* FERNET_KEY is empty or valid here, so the only failure is the database's. *)

Writers == 1..NWriters
WValues == {StrV("a"), StrV("b")}
InitKey == "k1"                       \* the key that has a committed row from the start

IdsOf(rows) == {r.id : r \in rows}
LockedByOther(w) == UNION {del[o] : o \in Writers \ {w}}
InsertedByOther(w) == UNION {ins[o] : o \in Writers \ {w}}

\* the committed table once the DELETE of line 199 has run: untouched, the
\* delete belongs to the session's open transaction
AfterDelete_Committed(tbl, ids) == {r \in tbl : r.id \notin ids}
AfterDelete(tbl, ids) == tbl

\* session.add(Variable(...)); session.flush(), lines 200-201: the session's pending rows
FlushRows_NoAdd(pending, row) == pending
FlushRows(pending, row) == pending \cup {row}

\* the session's transaction ends: its deletes and inserts reach the table at once
Committed(tbl, w) == {r \in tbl : r.id \notin del[w]} \cup ins[w]

\* a caller enters Variable.set(k, v): without session= the decorator opens one
\* ("ambient"), with session= the caller's own is used ("caller")
WCall(w, m, k, v) ==
    /\ wpc[w] = "idle"
    /\ wpc' = [wpc EXCEPT ![w] = "called"]
    /\ wmode' = [wmode EXCEPT ![w] = m]
    /\ wkey' = [wkey EXCEPT ![w] = k]
    /\ wval' = [wval EXCEPT ![w] = v]
    /\ UNCHANGED <<procVars, table, nextId, seqVars, threadVars, snap, del, ins, rd>>

\* line 199: the DELETE statement finds its rows
WDeleteBegin(w) ==
    /\ wpc[w] = "called"
    /\ snap' = [snap EXCEPT ![w] = IdsOf(Matching(table, wkey[w]))]
    /\ wpc' = [wpc EXCEPT ![w] = "deleting"]
    /\ UNCHANGED <<procVars, table, nextId, seqVars, threadVars, wmode, wkey, wval,
                   del, ins, rd>>

\* line 199: the DELETE statement completes once no row it found is locked
WDeleteEnd(w) ==
    /\ wpc[w] = "deleting"
    /\ snap[w] \cap LockedByOther(w) = {}
    /\ del' = [del EXCEPT ![w] = snap[w] \cap IdsOf(table)]
    /\ table' = AfterDelete(table, snap[w] \cap IdsOf(table))
    /\ snap' = [snap EXCEPT ![w] = {}]
    /\ wpc' = [wpc EXCEPT ![w] = "deleted"]
    /\ UNCHANGED <<procVars, nextId, seqVars, threadVars, wmode, wkey, wval, ins, rd>>

\* lines 200-201: Variable(key=key, val=stored_value), session.add, session.flush
WInsert(w) ==
    /\ wpc[w] = "deleted"
    /\ LET sv == SetValRun(NewVariable(wkey[w]), PyStr(wval[w]), GF)
           same == {r \in table : r.key = wkey[w] /\ r.id \notin del[w]}
       IN  /\ ApplyGF(sv.called, GF)
           /\ IF sv.exc # "none"
              THEN /\ wpc' = [wpc EXCEPT ![w] = "failed"]
                   /\ UNCHANGED <<ins, nextId>>
              ELSE /\ IdsOf(same) \cap LockedByOther(w) = {}
                   /\ Matching(InsertedByOther(w), wkey[w]) = {}
                   /\ IF same # {}
                      THEN /\ wpc' = [wpc EXCEPT ![w] = "failed"]
                           /\ UNCHANGED <<ins, nextId>>
                      ELSE /\ ins' = [ins EXCEPT ![w] =
                                         FlushRows(@, [sv.obj EXCEPT !.id = nextId + 1])]
                           /\ nextId' = nextId + 1
                           /\ wpc' = [wpc EXCEPT ![w] = "flushed"]
    /\ UNCHANGED <<table, seqVars, threadVars, wmode, wkey, wval, snap, del, rd>>

\* set returns: the decorator commits the session it opened and leaves a
\* caller's session as it is
WReturn(w) ==
    /\ wpc[w] = "flushed"
    /\ IF wmode[w] = "ambient"
       THEN /\ table' = Committed(table, w)
            /\ del' = [del EXCEPT ![w] = {}]
            /\ ins' = [ins EXCEPT ![w] = {}]
            /\ wpc' = [wpc EXCEPT ![w] = "committed"]
       ELSE /\ wpc' = [wpc EXCEPT ![w] = "returned"]
            /\ UNCHANGED <<table, del, ins>>
    /\ UNCHANGED <<procVars, nextId, seqVars, threadVars, wmode, wkey, wval, snap, rd>>

\* set raises: the transaction is rolled back (by the decorator for its own
\* session, by the caller for theirs)
WRaise(w) ==
    /\ wpc[w] = "failed"
    /\ del' = [del EXCEPT ![w] = {}]
    /\ ins' = [ins EXCEPT ![w] = {}]
    /\ wpc' = [wpc EXCEPT ![w] = "rolledback"]
    /\ UNCHANGED <<procVars, table, nextId, seqVars, threadVars, wmode, wkey, wval, snap, rd>>

\* the caller commits the session it passed to set
CallerCommit(w) ==
    /\ wpc[w] = "returned"
    /\ table' = Committed(table, w)
    /\ del' = [del EXCEPT ![w] = {}]
    /\ ins' = [ins EXCEPT ![w] = {}]
    /\ wpc' = [wpc EXCEPT ![w] = "committed"]
    /\ UNCHANGED <<procVars, nextId, seqVars, threadVars, wmode, wkey, wval, snap, rd>>

\* the caller rolls back the session it passed to set
CallerRollback(w) ==
    /\ wpc[w] = "returned"
    /\ del' = [del EXCEPT ![w] = {}]
    /\ ins' = [ins EXCEPT ![w] = {}]
    /\ wpc' = [wpc EXCEPT ![w] = "rolledback"]
    /\ UNCHANGED <<procVars, table, nextId, seqVars, threadVars, wmode, wkey, wval, snap, rd>>

\* Variable.get(k) in a session of its own: line 178 sees the committed rows
ReaderGet(k) ==
    \E obj \in First(table, k) :
        LET g == GetRun(obj, None, GF)
        IN  /\ ApplyGF(g.called, GF)
            /\ rd' = [key |-> k, n |-> Cardinality(Matching(table, k)), exc |-> g.exc]
            /\ UNCHANGED <<table, nextId, seqVars, threadVars, wpc, wmode, wkey, wval,
                           snap, del, ins>>

InitDB ==
    /\ _fernet = NoFernet
    /\ InvalidFernetToken = "placeholder"
    /\ conf \in {<<>>, <<"K1">>}
    /\ cryptography = TRUE
    /\ warnings = 0
    /\ nextObj = 0
    /\ table = {[id |-> 1, key |-> InitKey, val |-> StrV("a"), is_encrypted |-> FALSE]}
    /\ nextId = 1
    /\ last = NoLast
    /\ lastSet = [k \in Keys |-> Unset]
    /\ tpc = <<>> /\ tret = <<>> /\ tkey = <<>> /\ tcalls = <<>>
    /\ wpc = [w \in Writers |-> "idle"]
    /\ wmode = [w \in Writers |-> "ambient"]
    /\ wkey = [w \in Writers |-> InitKey]
    /\ wval = [w \in Writers |-> None]
    /\ snap = [w \in Writers |-> {}]
    /\ del = [w \in Writers |-> {}]
    /\ ins = [w \in Writers |-> {}]
    /\ rd = [key |-> "-", n |-> 0, exc |-> "none"]

NextDB ==
    \/ \E w \in Writers, m \in {"ambient", "caller"}, k \in Keys, v \in WValues :
          WCall(w, m, k, v)
    \/ \E w \in Writers : WDeleteBegin(w)
    \/ \E w \in Writers : WDeleteEnd(w)
    \/ \E w \in Writers : WInsert(w)
    \/ \E w \in Writers : WReturn(w)
    \/ \E w \in Writers : WRaise(w)
    \/ \E w \in Writers : CallerCommit(w)
    \/ \E w \in Writers : CallerRollback(w)
    \/ \E k \in Keys : ReaderGet(k)

SpecDB == InitDB /\ [][NextDB]_vars

----------------------------------------------------------------------------
(* SpecFernet: get_fernet() statement by statement, one position per thread *)

Threads == 1..NThreads

\* a caller enters get_fernet()
TCall(t) ==
    /\ tpc[t] = "idle"
    /\ tcalls[t] < MaxCalls
    /\ tpc' = [tpc EXCEPT ![t] = "check"]
    /\ tcalls' = [tcalls EXCEPT ![t] = @ + 1]
    /\ UNCHANGED <<procVars, table, nextId, seqVars, tret, tkey, dbVars>>

\* lines 75-76: if _fernet: return _fernet
TCheck(t) ==
    /\ tpc[t] = "check"
    /\ IF _fernet.cls # "None"
       THEN /\ tret' = [tret EXCEPT ![t] = _fernet]
            /\ tpc' = [tpc EXCEPT ![t] = "done"]
       ELSE /\ tpc' = [tpc EXCEPT ![t] = "import"]
            /\ UNCHANGED tret
    /\ UNCHANGED <<procVars, table, nextId, seqVars, tkey, tcalls, dbVars>>

\* lines 77-86: the import, and on ImportError the warning and _fernet = NullFernet()
TImport(t) ==
    /\ tpc[t] = "import"
    /\ IF cryptography
       THEN /\ InvalidFernetToken' = "InvalidToken"
            /\ tpc' = [tpc EXCEPT ![t] = "readkey"]
            /\ UNCHANGED <<_fernet, warnings, nextObj>>
       ELSE /\ warnings' = warnings + 1
            /\ _fernet' = NullFernet(nextObj + 1)
            /\ nextObj' = nextObj + 1
            /\ tpc' = [tpc EXCEPT ![t] = "ret"]
            /\ UNCHANGED InvalidFernetToken
    /\ UNCHANGED <<conf, cryptography, table, nextId, seqVars, tret, tkey, tcalls, dbVars>>

\* lines 90-95: read FERNET_KEY; when empty warn and _fernet = NullFernet()
TReadKey(t) ==
    /\ tpc[t] = "readkey"
    /\ tkey' = [tkey EXCEPT ![t] = conf]
    /\ IF conf = <<>>
       THEN /\ warnings' = warnings + 1
            /\ _fernet' = NullFernet(nextObj + 1)
            /\ nextObj' = nextObj + 1
            /\ tpc' = [tpc EXCEPT ![t] = "ret"]
       ELSE /\ tpc' = [tpc EXCEPT ![t] = "build"]
            /\ UNCHANGED <<_fernet, warnings, nextObj>>
    /\ UNCHANGED <<InvalidFernetToken, conf, cryptography, table, nextId, seqVars,
                   tret, tcalls, dbVars>>

\* lines 97-100: _fernet = MultiFernet([Fernet(part) ...]); lines 102-103 on ValueError
TBuild(t) ==
    /\ tpc[t] = "build"
    /\ IF KeyOK(tkey[t])
       THEN /\ _fernet' = MultiFernet(tkey[t], nextObj + 1)
            /\ nextObj' = nextObj + 1
            /\ tpc' = [tpc EXCEPT ![t] = "setflag"]
       ELSE /\ tpc' = [tpc EXCEPT ![t] = "raised"]
            /\ UNCHANGED <<_fernet, nextObj>>
    /\ UNCHANGED <<InvalidFernetToken, conf, cryptography, warnings, table, nextId,
                   seqVars, tret, tkey, tcalls, dbVars>>

\* line 101: _fernet.is_encrypted = True, on whatever object the global names now
TSetFlag(t) ==
    /\ tpc[t] = "setflag"
    /\ _fernet' = FlagEncrypted(_fernet)
    /\ tpc' = [tpc EXCEPT ![t] = "ret"]
    /\ UNCHANGED <<InvalidFernetToken, conf, cryptography, warnings, nextObj, table,
                   nextId, seqVars, tret, tkey, tcalls, dbVars>>

\* lines 87 and 105: return _fernet (the global is read again)
TReturn(t) ==
    /\ tpc[t] = "ret"
    /\ tret' = [tret EXCEPT ![t] = _fernet]
    /\ tpc' = [tpc EXCEPT ![t] = "done"]
    /\ UNCHANGED <<procVars, table, nextId, seqVars, tkey, tcalls, dbVars>>

\* the caller goes on and may call again; it keeps the object it was given
TResume(t) ==
    /\ tpc[t] \in {"done", "raised"}
    /\ tpc' = [tpc EXCEPT ![t] = "idle"]
    /\ UNCHANGED <<procVars, table, nextId, seqVars, tret, tkey, tcalls, dbVars>>


InitFernet ==
    /\ _fernet = NoFernet
    /\ InvalidFernetToken = "placeholder"
    /\ conf \in Configs
    /\ cryptography \in BOOLEAN
    /\ warnings = 0
    /\ nextObj = 0
    /\ table = {}
    /\ nextId = 0
    /\ last = NoLast
    /\ lastSet = [k \in Keys |-> Unset]
    /\ tpc = [t \in Threads |-> "idle"]
    /\ tret = [t \in Threads |-> NoFernet]
    /\ tkey = [t \in Threads |-> <<>>]
    /\ tcalls = [t \in Threads |-> 0]
    /\ wpc = <<>> /\ wmode = <<>> /\ wkey = <<>> /\ wval = <<>>
    /\ snap = <<>> /\ del = <<>> /\ ins = <<>> /\ rd = <<>>

NextFernet ==
    \E t \in Threads :
        \/ TCall(t)
        \/ TCheck(t)
        \/ TImport(t)
        \/ TReadKey(t)
        \/ TBuild(t)
        \/ TSetFlag(t)
        \/ TReturn(t)
        \/ TResume(t)

SpecFernet == InitFernet /\ [][NextFernet]_vars

\* C1: with a valid key configured, callers that enter get_fernet() while _fernet
\* is None all receive one and the same cipher object, and only one is constructed.
C1_OneInstance ==
    (cryptography /\ conf # <<>> /\ KeyOK(conf)) =>
        /\ nextObj <= 1
        /\ \A t1, t2 \in Threads :
              (tret[t1].cls # "None" /\ tret[t2].cls # "None") => tret[t1].id = tret[t2].id

----------------------------------------------------------------------------

Init ==
    /\ _fernet = NoFernet
    /\ InvalidFernetToken = "placeholder"
    /\ conf \in Configs
    /\ cryptography \in BOOLEAN
    /\ warnings = 0
    /\ nextObj = 0
    /\ \E rows \in SUBSET InitRows :
          /\ Cardinality(rows) <= 1
          /\ table = rows
          /\ nextId = Cardinality(rows)
    /\ last = NoLast
    /\ lastSet = [k \in Keys |-> Unset]
    /\ tpc = <<>> /\ tret = <<>> /\ tkey = <<>> /\ tcalls = <<>>
    /\ wpc = <<>> /\ wmode = <<>> /\ wkey = <<>> /\ wval = <<>>
    /\ snap = <<>> /\ del = <<>> /\ ins = <<>> /\ rd = <<>>

Next ==
    \/ GetFernetCall
    \/ \E v \in Values : CipherRoundTrip(v)
    \/ \E k \in Keys, d \in Defaults : Get(k, d)
    \/ \E k \in Keys, v \in Values : Set(k, v)
    \/ \E k \in Keys, d \in Values : SetDefault(k, d)
    \/ \E c \in Configs : ConfChange(c)

Spec == Init /\ [][Next]_vars

\* SpecLife: records are loaded, assigned to, rotated and read back while the
\* configuration changes and processes come and go over the same table
LifeValues == {StrV(""), StrV("a")}
LifeDefaults == {None, StrV(""), StrV("b")}

NextLife ==
    \/ GetFernetCall
    \/ \E k \in Keys, d \in LifeDefaults : Get(k, d)
    \/ \E k \in Keys, v \in LifeValues : Set(k, v)
    \/ \E k \in Keys : Rotate(k)
    \/ \E k \in Keys, v \in LifeValues : AssignVal(k, v)
    \/ \E c \in Configs : ConfChange(c)
    \/ Restart

SpecLife == Init /\ [][NextLife]_vars

----------------------------------------------------------------------------
(* Claims checked under Spec *)

\* the cipher get_fernet() hands out when called in this state
Active(cls) == GF.exc = "none" /\ GF.ret.cls = cls
BadKeyPending == _fernet = NoFernet /\ cryptography /\ conf # <<>> /\ ~KeyOK(conf)

\* C5: the table holds at most one row per key; the row a set inserted is a fresh
\* one; and for each key, when the most recent set that returned was given v with
\* str(v) non-empty, get(key) returns str(v).
C5_SetReplaces ==
    /\ \A k \in Keys : Cardinality(Matching(table, k)) <= 1
    /\ (last.op = "set" /\ last.exc = "none") =>
           \E r \in Matching(table, last.key) : r.id = nextId
    /\ \A k \in Keys :
          (lastSet[k].has /\ Truthy(PyStr(lastSet[k].v))) =>
              \A obj \in First(table, k) :
                  /\ GetRun(obj, None, GF).exc = "none"
                  /\ GetRun(obj, None, GF).ret = PyStr(lastSet[k].v)

\* a row of an earlier process under k1 was replaced twice and k1 still has one row
C5_Witness ==
    /\ lastSet["k1"].has /\ Truthy(PyStr(lastSet["k1"].v))
    /\ nextId = 3
    /\ Cardinality(Matching(table, "k1")) = 1
    /\ Cardinality(table) = 1

\* C6 as stated: after set(key, v), under NullFernet the row is not flagged and
\* get_val() returns v; under a real cipher the row is flagged and _val differs from v.
C6_TaggingAnyValue ==
    (last.op = "set" /\ last.exc = "none") =>
        /\ Matching(table, last.key) # {}
        /\ \A r \in Matching(table, last.key) :
              /\ Active("NullFernet") =>
                     (~r.is_encrypted /\ GetValRun(r, GF).ret = last.arg)
              /\ Active("MultiFernet") => (r.is_encrypted /\ r.val # last.arg)

\* C6 amended: the same for v with str(v) non-empty, get_val() returning str(v)
\* and _val differing from str(v).
C6_Tagging ==
    (last.op = "set" /\ last.exc = "none" /\ Truthy(PyStr(last.arg))) =>
        /\ Matching(table, last.key) # {}
        /\ \A r \in Matching(table, last.key) :
              /\ Active("NullFernet") =>
                     (~r.is_encrypted /\ GetValRun(r, GF).ret = PyStr(last.arg))
              /\ Active("MultiFernet") => (r.is_encrypted /\ r.val # PyStr(last.arg))

C6_Witness ==
    /\ last.op = "set" /\ last.exc = "none" /\ Truthy(PyStr(last.arg))
    /\ _fernet.cls = "MultiFernet"
    /\ \E r \in Matching(table, last.key) : r.is_encrypted /\ r.val.enc = _fernet.keys[1]

\* C7: with NullFernet active, decrypt(encrypt(v)) raises nothing and returns v.
C7_NullRoundTrip ==
    (last.op = "roundtrip" /\ _fernet.cls = "NullFernet") =>
        (last.exc = "none" /\ last.ret = last.arg)

\* C8: get_val() never raises; a flagged row that the active cipher cannot decrypt
\* (no key of it fits, or it is NullFernet) reads as None with an error logged; an
\* unflagged row reads as its _val.
C8_GetValNeverRaises ==
    (last.op = "get") =>
        \A r \in Matching(table, last.key) :
            /\ last.exc = "none"
            /\ (r.is_encrypted /\ Truthy(r.val) /\
                  (\/ _fernet.cls = "NullFernet"
                   \/ /\ _fernet.cls = "MultiFernet"
                      /\ \A i \in 1..Len(_fernet.keys) : _fernet.keys[i] # r.val.enc))
                  => (last.ret = None /\ last.log # "none")
            /\ ~r.is_encrypted => (last.ret = r.val /\ last.log = "none")

\* a token read while NullFernet is the active cipher
C8_Witness ==
    /\ last.op = "get" /\ last.ret = None /\ last.log = "configuration missing"
    /\ _fernet.cls = "NullFernet"
    /\ \E r \in Matching(table, last.key) : r.is_encrypted /\ r.val.enc = "K1"

\* the call just made reaches get_fernet() on the write path / on the read path
WritePath ==
    \/ last'.op = "set" /\ Truthy(PyStr(last'.arg))
    \/ /\ last'.op = "setdefault" /\ Matching(table, last'.key) = {}
       /\ last'.arg # None /\ Truthy(PyStr(last'.arg))
ReadPath ==
    /\ last'.op \in {"get", "setdefault"}
    /\ \E r \in Matching(table, last'.key) : r.is_encrypted /\ Truthy(r.val)

\* C9 as stated: with a structurally invalid key, every store operation that
\* reaches get_fernet(), writing or reading, raises the configuration error.
C9_AlwaysSurfaced ==
    [][(BadKeyPending /\ conf' = conf /\ (WritePath \/ ReadPath))
          => last'.exc = "AirflowException"]_vars

\* C9 amended: on the write path the error is raised and nothing is written; on the
\* read path get_val() swallows it: the call returns None and logs an error.
C9_SurfacedOnWrite ==
    [][(BadKeyPending /\ conf' = conf) =>
          /\ WritePath => (last'.exc = "AirflowException" /\ table' = table)
          /\ ReadPath => (last'.exc = "none" /\ last'.ret = None
                          /\ last'.log = "configuration missing")]_vars

C9_Witness ==
    /\ BadKeyPending
    /\ last.op = "get" /\ last.exc = "none" /\ last.ret = None
    /\ last.log = "configuration missing"

\* C10: a call that runs the resolution with a non-empty invalid key leaves _fernet
\* None, and get_fernet() itself raises AirflowException.
C10_InvalidKeyStaysUnresolved ==
    [][(BadKeyPending /\ conf' = conf) =>
          /\ _fernet' = NoFernet
          /\ last'.op = "get_fernet" => last'.exc = "AirflowException"]_vars

C10_Witness ==
    /\ last.op = "get_fernet" /\ last.exc = "AirflowException"
    /\ conf = <<"K1", "bad">>
    /\ _fernet = NoFernet /\ InvalidFernetToken = "InvalidToken"

----------------------------------------------------------------------------
(* Claims checked under SpecDB *)

\* C2: a reader of the key that has a committed row never finds zero rows or two
\* rows for it (nor a KeyError) while sets on that key are in progress.
C2_ReaderSeesOneRow ==
    (rd.key = InitKey) => (rd.n = 1 /\ rd.exc = "none")

\* the reader looked while a set on that key had deleted but not yet committed
C2_Witness ==
    /\ rd.key = InitKey /\ rd.n = 1
    /\ \E w \in Writers : wkey[w] = InitKey /\ wpc[w] = "flushed" /\ del[w] # {}

\* C3: concurrent sets on one key all complete without error, and once they have
\* ended the key has exactly one row, holding the value one of them wrote.
C3_ConcurrentSetsSucceed ==
    /\ \A w \in Writers : wpc[w] # "failed"
    /\ \A k \in Keys : Cardinality(Matching(table, k)) <= 1
    /\ \A k \in Keys :
          (/\ \A w \in Writers : wpc[w] = "committed" /\ wkey[w] = k)
              => \E r \in Matching(table, k), w \in Writers :
                    GetValRun(r, GF).ret = PyStr(wval[w])

\* C4 as stated: whenever set returns, its row is committed: a reader in another
\* session finds it.
C4_CommittedOnReturn ==
    [][\A w \in Writers :
          (wpc[w] = "flushed" /\ wpc'[w] # "flushed") =>
              /\ ins[w] # {}
              /\ ins[w] \subseteq table'
              /\ \A r \in ins[w] :
                    /\ Matching(table', wkey[w]) = {r}
                    /\ GetRun(r, None, GF).ret = PyStr(wval[w])]_vars

\* C4 amended: set called without a session has committed its row when it returns
\* and a reader in another session reads the new value; set called with the
\* caller's session has flushed the row into that session's transaction only:
\* the table is unchanged at the return and receives the row at the caller's commit.
C4_CommittedWhenAmbient ==
    [][\A w \in Writers :
          /\ (wpc[w] = "flushed" /\ wpc'[w] # "flushed") =>
                /\ ins[w] # {}
                /\ wmode[w] = "ambient" =>
                      /\ ins[w] \subseteq table'
                      /\ \A r \in ins[w] :
                            /\ r.key = wkey[w]
                            /\ Matching(table', wkey[w]) = {r}
                            /\ GetRun(r, None, GF).ret = PyStr(wval[w])
                /\ wmode[w] = "caller" => table' = table
          /\ (wpc[w] = "returned" /\ wpc'[w] = "committed") =>
                (ins[w] # {} /\ ins[w] \subseteq table')]_vars

\* set with the caller's session has returned and its row is not in the table
C4_Witness ==
    \E w \in Writers :
        /\ wpc[w] = "returned" /\ wmode[w] = "caller"
        /\ ins[w] # {} /\ ins[w] \cap table = {}
        /\ \E o \in Writers : wpc[o] = "committed" /\ wmode[o] = "ambient"

----------------------------------------------------------------------------
(* Claims checked under SpecFernet, continued *)

\* C11: with cryptography missing or FERNET_KEY empty, get_fernet() raises nothing,
\* every caller is handed a NullFernet, and the warning is logged once in the process.
C11_WarnsOnce ==
    (~cryptography \/ conf = <<>>) =>
        /\ warnings <= 1
        /\ \A t \in Threads :
              /\ tpc[t] # "raised"
              /\ tpc[t] = "done" => tret[t].cls = "NullFernet"

----------------------------------------------------------------------------
(* Claims checked under SpecLife *)

\* C12: within one process and one thread, once get_fernet() has handed out a cipher
\* no later step (a configuration change, set_val, get_val, rotate_fernet_key, another
\* get_fernet()) replaces the cached instance, and every later get_fernet() returns it.
C12_SameInstance ==
    [][(_fernet.cls # "None" /\ last'.op # "restart") =>
           /\ _fernet' = _fernet
           /\ last'.op = "get_fernet" =>
                  (last'.exc = "none" /\ last'.fernet = _fernet)]_vars

\* get_fernet() has just returned the cipher built from an earlier FERNET_KEY,
\* after the configuration changed and a record was written in between
C12_Witness ==
    /\ last.op = "get_fernet" /\ last.exc = "none"
    /\ last.fernet = _fernet
    /\ _fernet.cls = "MultiFernet" /\ _fernet.keys # conf
    /\ nextObj = 1
    /\ \E r \in table : r.id > 1

\* the outcome of get_fernet() in the state a step leads to
GFNext == GetFernetRun(_fernet', InvalidFernetToken', conf', cryptography', nextObj')

\* the cipher in use holds the key list [K2, K1]
RotatingKeys == Active("MultiFernet") /\ GF.ret.keys = <<"K2", "K1">>

\* C13: with the key list [K2, K1] in use, a record encrypted under K1 is read by
\* get_val() as its plaintext; rotate_fernet_key() on it raises nothing and leaves the
\* same record with a token under K2, is_encrypted true and the same get_val();
\* on a record with is_encrypted false or an empty _val it changes no record.
C13_Rotation ==
    [][last'.op = "rotate" =>
           \A r \in Matching(table, last'.key) :
               /\ (RotatingKeys /\ r.is_encrypted /\ r.val.enc = "K1") =>
                      /\ GetValRun(r, GF).ret = StrV(r.val.s)
                      /\ last'.exc = "none"
                      /\ \E n \in table' :
                            /\ table' = (table \ {r}) \cup {n}
                            /\ n.id = r.id /\ n.key = r.key
                            /\ n.is_encrypted
                            /\ n.val.enc = "K2"
                            /\ GetValRun(n, GFNext).ret = StrV(r.val.s)
               /\ (~r.is_encrypted \/ ~Truthy(r.val)) => table' = table]_vars

\* the token an earlier process wrote under K1 has just been rotated to one under K2
C13_Witness ==
    /\ last.op = "rotate" /\ last.exc = "none" /\ last.key = "k1"
    /\ _fernet.cls = "MultiFernet" /\ _fernet.keys = <<"K2", "K1">>
    /\ nextId = 1 /\ ~lastSet["k1"].has
    /\ \E r \in table :
          r.id = 1 /\ r.is_encrypted /\ r.val.enc = "K2" /\ r.val.s = "a"

\* C14: Variable.get(key, default_var) on a key with no record returns default_var
\* when it is not None (the empty string included), raises KeyError when it is None,
\* and leaves the table as it was.
C14_GetAbsent ==
    [][(last'.op = "get" /\ Matching(table, last'.key) = {}) =>
           /\ table' = table
           /\ last'.arg # None => (last'.exc = "none" /\ last'.ret = last'.arg)
           /\ last'.arg = None => last'.exc = "KeyError"]_vars

\* get on a key without a record has just returned the empty default it was given,
\* while another key has a record
C14_Witness ==
    /\ last.op = "get" /\ last.exc = "none"
    /\ last.arg = StrV("") /\ last.ret = StrV("")
    /\ Matching(table, last.key) = {}
    /\ table # {}

----------------------------------------------------------------------------
(* Claims checked under Spec, continued *)

\* what get(k) returns for a record that set(k, v) stored
ReadsBack(v) == IF Truthy(PyStr(v)) THEN PyStr(v) ELSE None

\* a setdefault step that returned, on a key without a record and with a default
StoresDefault ==
    /\ last'.op = "setdefault" /\ last'.exc = "none"
    /\ Matching(table, last'.key) = {}
    /\ last'.arg # None

\* a setdefault step on a key whose record was stored with a non-null value d
\* (by setdefault(k, d), or by set(k, d), which is how setdefault stores)
FindsStored ==
    /\ last'.op = "setdefault"
    /\ Matching(table, last'.key) # {}
    /\ lastSet[last'.key].has /\ lastSet[last'.key].v # None

C16_NoneDefault ==
    [][(last'.op = "setdefault" /\ last'.arg = None) =>
           /\ table' = table
           /\ Matching(table, last'.key) = {} => last'.exc = "ValueError"
           /\ \A r \in Matching(table, last'.key) :
                 /\ last'.exc = "none"
                 /\ last'.ret = GetValRun(r, GF).ret
                 /\ ~r.is_encrypted => last'.ret = r.val
                 /\ lastSet[last'.key].has =>
                        last'.ret = ReadsBack(lastSet[last'.key].v)]_vars

\* setdefault("k2", None) has just raised ValueError: k2 has no record, k1 has one
C16_Witness ==
    /\ last.op = "setdefault" /\ last.key = "k2" /\ last.arg = None
    /\ last.exc = "ValueError"
    /\ Matching(table, "k2") = {}
    /\ Matching(table, "k1") # {}

----------------------------------------------------------------------------
(* Claims checked under SpecLife, continued *)

\* the value a set or an assignment that returned has handed to set_val
Written == IF last'.op = "set" THEN PyStr(last'.arg) ELSE last'.arg

\* C17: a record that set_val wrote or rotate_fernet_key changed is flagged exactly
\* when a real cipher was in use, and then holds a token under that cipher's first
\* key which the cipher decrypts to the value written; unflagged, it holds the value
\* itself.  No other step, the start of another process under another configuration
\* included, changes a record, and in every state get_val() returns the _val of an
\* unflagged record as it is without resolving the cipher.
C17_TagMatchesContent ==
    /\ [](\A r \in table :
             ~r.is_encrypted =>
                 /\ GetValRun(r, GF).ret = r.val
                 /\ GetValRun(r, GF).exc = "none"
                 /\ ~GetValRun(r, GF).called)
    /\ [][/\ last'.op \notin {"set", "assign", "rotate"} => table' = table
          /\ \A r \in table' \ table :
                /\ last'.exc = "none"
                /\ r.is_encrypted =>
                       /\ _fernet'.cls = "MultiFernet"
                       /\ r.val.enc = _fernet'.keys[1]
                       /\ GetValRun(r, GFNext).ret # None
                       /\ last'.op # "rotate" => GetValRun(r, GFNext).ret = Written
                /\ ~r.is_encrypted =>
                       /\ r.val.enc = "-"
                       /\ last'.op # "rotate"
                       /\ Truthy(Written) => (_fernet'.cls = "NullFernet" /\ r.val = Written)]_vars

\* a record an earlier process wrote as plain text under NullFernet has just been
\* read back verbatim by a process with a real cipher, next to an encrypted record
C17_Witness ==
    /\ _fernet.cls = "MultiFernet"
    /\ last.op = "get" /\ last.key = "k2" /\ last.exc = "none" /\ last.log = "none"
    /\ last.ret = StrV("a")
    /\ \E r \in Matching(table, "k2") : ~r.is_encrypted /\ r.val = StrV("a")
    /\ \E r \in Matching(table, "k1") : r.is_encrypted /\ r.val.enc = _fernet.keys[1]

\* the step resolved no cipher and logged nothing
NoResolution ==
    /\ _fernet' = _fernet /\ InvalidFernetToken' = InvalidFernetToken
    /\ warnings' = warnings /\ nextObj' = nextObj

\* C18: assigning an empty value to a record raises nothing, leaves every record
\* (its _val and is_encrypted included) as it was and does not resolve the cipher;
\* Variable.set(key, '') raises nothing, resolves no cipher and leaves under key one
\* record, without a value and unflagged, which get reads back as None.
C18_FalsyIsNoOp ==
    [][/\ (last'.op = "assign" /\ ~Truthy(last'.arg)) =>
              /\ last'.exc = "none"
              /\ table' = table
              /\ NoResolution
       /\ (last'.op = "set" /\ ~Truthy(PyStr(last'.arg))) =>
              /\ last'.exc = "none"
              /\ NoResolution
              /\ \E r \in table' :
                    /\ Matching(table', last'.key) = {r}
                    /\ r.val = None /\ ~r.is_encrypted
                    /\ GetRun(r, StrV("b"), GFNext).ret = None
                    /\ GetRun(r, StrV("b"), GFNext).exc = "none"]_vars

\* '' has just been assigned to an encrypted record in a process whose FERNET_KEY
\* is invalid and unresolved: the record still holds its token
C18_Witness ==
    /\ last.op = "assign" /\ last.arg = StrV("") /\ last.exc = "none"
    /\ BadKeyPending
    /\ \E r \in Matching(table, last.key) : r.is_encrypted /\ r.val.enc = "K1"

----------------------------------------------------------------------------
(* Claims checked under Spec, continued *)

\* C19: setdefault(k, d) on a key whose record is flagged encrypted and cannot be
\* decrypted (get_val() logs the failure and returns None) raises nothing, returns
\* None, writes nothing and leaves the record in place, whatever d is.
C19_UndecryptableIsPresent ==
    [][last'.op = "setdefault" =>
           \A r \in Matching(table, last'.key) :
               (r.is_encrypted /\ GetValRun(r, GF).ret = None) =>
                   /\ last'.exc = "none"
                   /\ last'.ret = None
                   /\ last'.log # "none"
                   /\ table' = table]_vars

\* setdefault("k1", "a") has just returned None: k1 holds a token under K2 and the
\* cipher in use has the key K1 alone
C19_Witness ==
    /\ last.op = "setdefault" /\ last.key = "k1" /\ last.arg = StrV("a")
    /\ last.exc = "none" /\ last.ret = None /\ last.log = "invalid token"
    /\ _fernet.cls = "MultiFernet" /\ _fernet.keys = <<"K1">>
    /\ \E r \in Matching(table, "k1") : r.is_encrypted /\ r.val.enc = "K2"

\* C20: Variable.get(k) changes no record, whether it returns a value, returns the
\* default or raises; Variable.set(k, v) and Variable.setdefault(k, d) leave the
\* records of every other key as they were.
C20_TouchesOwnKeyOnly ==
    [][/\ last'.op = "get" => table' = table
       /\ last'.op \in {"set", "setdefault"} =>
              \A k \in Keys \ {last'.key} :
                  Matching(table', k) = Matching(table, k)]_vars

\* set on "k2" has just replaced the record of k2 while the record an earlier
\* process left under k1 is still there
C20_Witness ==
    /\ last.op = "set" /\ last.key = "k2" /\ last.exc = "none"
    /\ \E r \in Matching(table, "k2") : r.id = 3
    /\ \E r \in Matching(table, "k1") : r.id = 1 /\ r.is_encrypted

====
